---- MODULE Spec2Model ----
(***************************************************************************)
(* ParamShiftEstimatorGradient._run / _run_unique                          *)
(* (qiskit_algorithms/gradients/param_shift/param_shift_estimator_gradient *)
(* .py) as a state machine: one behaviour is one invocation of _run, from  *)
(* the binding of its arguments to its return or to the exception that     *)
(* leaves it.                                                              *)
(*                                                                         *)
(* Numbers.  Parameter values are integers counted in units of pi/2, so a  *)
(* parameter shift is +1 / -1.  Expectation values are even integers, so   *)
(* that the halving of line 139 is exact.  Precisions are opaque: the code *)
(* only copies them and tests them against None.                           *)
(***************************************************************************)
EXTENDS Integers, Sequences, FiniteSets

\* ---------------------------------------------------------------- bounds
\* longest input sequence the caller passes
MaxLen == 2
\* number of parameters of every circuit
NumParams == 2

\* ------------------------------------------------------------ value sets
None == "None"
\* precisions a caller asks for
PrecisionValues == {"0.1", "0.2"}
\* default precisions an estimator may be configured with
DefaultPrecisions == {"0.2", "0.3"}
\* an estimator's expectation value is 2 * circuit * (w . values): w ranges here
Landscapes == [1..NumParams -> {0, 1}]

Min(a, b) == IF a <= b THEN a ELSE b

SeqsUpTo(S, n) == UNION {[1..l -> S] : l \in 0..n}

\* ---------------------------------------------------- the caller's inputs
\* The i-th circuit, observable and parameter-value assignment a caller passes
\* are distinct for distinct i, so that a wrong pairing shows.
Circuit(i) == [id |-> i, translated |-> FALSE, transpiled |-> FALSE]
Observable(i) == [id |-> i, layout |-> 0]
ParameterValuesAt(i) == [j \in 1..NumParams |-> i + j]
\* parameter subsets: none, one, two in an order that is not the circuit's
ParameterChoices == {<< >>, <<1>>, <<NumParams, 1>>}

\* precision: float | Sequence[float] | None
ScalarPrecision(p) == [kind |-> "scalar", scalar |-> p, seq |-> << >>]
SeqPrecision(s) == [kind |-> "seq", scalar |-> None, seq |-> s]
PrecisionArgs ==
    {ScalarPrecision(p) : p \in PrecisionValues \cup {None}}
        \cup {SeqPrecision(s) : s \in SeqsUpTo(PrecisionValues \cup {None}, MaxLen)}

Arguments ==
    {[circuits |-> [i \in 1..lc |-> Circuit(i)],
      observables |-> [i \in 1..lo |-> Observable(i)],
      parameter_values |-> [i \in 1..lv |-> ParameterValuesAt(i)],
      parameters |-> ps,
      precision |-> pr] :
        lc \in 0..MaxLen, lo \in 0..MaxLen, lv \in 0..MaxLen,
        ps \in SeqsUpTo(ParameterChoices, MaxLen), pr \in PrecisionArgs}

VARIABLES
    transpiler,                 \* self._transpiler is not None
    original,                   \* the arguments as they were when _run was called
    caller,                     \* the caller's argument objects as they are now
    pc,                         \* position in _run / _run_unique
    circuits, observables, parameter_values, parameters,   \* _run_unique's parameters
    precision,                  \* _run_unique's precision, a list from line 96 on
    has_transformed_precision,
    metadata, pubs,
    run_calls, result_calls,    \* calls of estimator.run and of job.result so far
    submitted,                  \* the batches estimator.run received
    service_failed,             \* the estimator raised in run or in result
    service_default,            \* the default precision the estimator reported
    results, gradients,
    raised, cause,              \* the exception that left the routine, and its __cause__
    returned                    \* the EstimatorGradientResult of line 152

vars == <<transpiler, original, caller, pc, circuits, observables, parameter_values,
          parameters, precision, has_transformed_precision, metadata, pubs,
          run_calls, result_calls, submitted, service_failed, service_default,
          results, gradients, raised, cause, returned>>

NoResult == [present |-> FALSE, gradients |-> << >>, metadata |-> << >>,
             precision |-> ScalarPrecision(None)]

\* -------------------------------------------------- code outside this file
\* BaseEstimatorGradient._preprocess: translates each circuit to the supported
\* gates; parameter values and parameter subsets go with their circuit.
Preprocess(cs, pvs, ps) ==
    [g_circuits |-> [i \in DOMAIN cs |-> [cs[i] EXCEPT !.translated = TRUE]],
     g_parameter_values |-> pvs,
     g_parameters |-> ps]

\* self._transpiler.run: every circuit comes back transpiled, with a layout
TranspilerRun(cs) == [i \in DOMAIN cs |-> [cs[i] EXCEPT !.transpiled = TRUE]]

\* obs.apply_layout(circuit.layout)
ApplyLayout(obs, circuit) == [obs EXCEPT !.layout = circuit.id]

\* _make_param_shift_parameter_values: for the k selected parameters, the k
\* assignments shifted by +pi/2 followed by the k assignments shifted by -pi/2
MakeParamShiftParameterValues(circuit, parameter_values_, parameters_) ==
    LET k == Len(parameters_)
    IN  [j \in 1..(2 * k) |->
            IF j <= k
            THEN [parameter_values_ EXCEPT ![parameters_[j]] = @ + 1]
            ELSE [parameter_values_ EXCEPT ![parameters_[j - k]] = @ - 1]]

RECURSIVE Dot(_, _, _)
Dot(w, v, n) == IF n = 0 THEN 0 ELSE w[n] * v[n] + Dot(w, v, n - 1)

\* the estimator's answer to one pub: one expectation value per assignment, and
\* in the metadata the precision it aimed at (its default when none was asked)
PubResult(pub, w, default) ==
    [evs |-> [j \in DOMAIN pub.parameter_values |->
                 2 * pub.circuit.id * Dot(w, pub.parameter_values[j], NumParams)],
     target_precision |-> IF pub.precision = None THEN default ELSE pub.precision]

EstimatorResults(batch, w, default) ==
    [i \in DOMAIN batch |-> PubResult(batch[i], w, default)]

\* ------------------------------------------------------------------ _run
\* lines 72-76: the zip stops at the shorter of g_circuits and observables
LayoutObservables(g_circuits, obs) ==
    [i \in 1..Min(Len(g_circuits), Len(obs)) |-> ApplyLayout(obs[i], g_circuits[i])]

\* ----------------------------------------------------------- _run_unique
\* lines 95-97
TransformsPrecision(pr) == pr.kind = "scalar"

\* a slip in line 96: the list is built before the scalar is looked at
PrecisionList_dropsScalar(pr, n) ==
    IF pr.kind = "scalar" THEN [i \in 1..n |-> None] ELSE pr.seq

PrecisionList(pr, n) ==
    IF pr.kind = "scalar" THEN [i \in 1..n |-> pr.scalar] ELSE pr.seq

\* lines 102-108
SameLengths(cs, obs, ps, pvs, prec) ==
    /\ Len(cs) = Len(obs)
    /\ Len(obs) = Len(ps)
    /\ Len(ps) = Len(pvs)
    /\ Len(pvs) = Len(prec)

\* the zip of line 115 stops at the shortest of its five sequences
ZipLen(cs, obs, pvs, ps, prec) ==
    Min(Len(cs), Min(Len(obs), Min(Len(pvs), Min(Len(ps), Len(prec)))))

\* a slip in line 118: every entry records the first circuit's parameters
Metadata_firstParameters(cs, obs, pvs, ps, prec) ==
    [i \in 1..ZipLen(cs, obs, pvs, ps, prec) |-> [parameters |-> ps[1]]]

\* line 118
Metadata(cs, obs, pvs, ps, prec) ==
    [i \in 1..ZipLen(cs, obs, pvs, ps, prec) |-> [parameters |-> ps[i]]]

\* a slip in line 124: every pub carries the first circuit's precision
Pubs_firstPrecision(cs, obs, pvs, ps, prec) ==
    [i \in 1..ZipLen(cs, obs, pvs, ps, prec) |->
        [circuit |-> cs[i],
         observable |-> obs[i],
         parameter_values |-> MakeParamShiftParameterValues(cs[i], pvs[i], ps[i]),
         precision |-> prec[1]]]

\* lines 119-124
Pubs(cs, obs, pvs, ps, prec) ==
    [i \in 1..ZipLen(cs, obs, pvs, ps, prec) |->
        [circuit |-> cs[i],
         observable |-> obs[i],
         parameter_values |-> MakeParamShiftParameterValues(cs[i], pvs[i], ps[i]),
         precision |-> prec[i]]]

\* a slip in line 139: neighbours are subtracted instead of the two halves
Gradient_neighbours(evs) ==
    LET n == Len(evs)
        h == n \div 2
    IN  [i \in 1..h |-> (evs[2 * i - 1] - evs[2 * i]) \div 2]

\* lines 137-139
Gradient(evs) ==
    LET n == Len(evs)
        h == n \div 2
    IN  [i \in 1..h |-> (evs[i] - evs[h + i]) \div 2]

\* lines 134-140
Gradients(res) == [i \in DOMAIN res |-> Gradient(res[i].evs)]

\* a slip in lines 145-146: the default is never read back
ResolveScalar_keepsNone(prec, res) == prec[1]

\* lines 143-146, for a non-empty list
ResolveScalar(prec, res) ==
    IF prec[1] = None THEN res[1].target_precision ELSE prec[1]

\* a slip in line 150: results[0] instead of results[i]
ResolveSequence_firstResult(prec, res) ==
    [i \in DOMAIN prec |->
        IF i <= Len(res) /\ prec[i] = None THEN res[1].target_precision ELSE prec[i]]

\* lines 148-150
ResolveSequence(prec, res) ==
    [i \in DOMAIN prec |->
        IF i <= Len(res) /\ prec[i] = None THEN res[i].target_precision ELSE prec[i]]

\* ------------------------------------------------------------------ Init
Init ==
    /\ transpiler \in BOOLEAN
    /\ original \in Arguments
    /\ caller = original
    /\ pc = "_run"
    /\ circuits = << >>
    /\ observables = << >>
    /\ parameter_values = << >>
    /\ parameters = << >>
    /\ precision = << >>
    /\ has_transformed_precision = FALSE
    /\ metadata = << >>
    /\ pubs = << >>
    /\ run_calls = 0
    /\ result_calls = 0
    /\ submitted = << >>
    /\ service_failed = FALSE
    /\ service_default = None
    /\ results = << >>
    /\ gradients = << >>
    /\ raised = "none"
    /\ cause = "none"
    /\ returned = NoResult

\* --------------------------------------------------------------- actions
\* _run, lines 68-80: preprocess, transpile when a transpiler is set, and call
\* _run_unique; precision is handed on as the caller passed it
Run ==
    /\ pc = "_run"
    /\ LET g == Preprocess(caller.circuits, caller.parameter_values, caller.parameters)
           g_circuits == IF transpiler THEN TranspilerRun(g.g_circuits) ELSE g.g_circuits
       IN  /\ circuits' = g_circuits
           /\ observables' = IF transpiler
                             THEN LayoutObservables(g_circuits, caller.observables)
                             ELSE caller.observables
           /\ parameter_values' = g.g_parameter_values
           /\ parameters' = g.g_parameters
    /\ pc' = "_run_unique"
    /\ UNCHANGED <<transpiler, original, caller, precision, has_transformed_precision,
                   metadata, pubs, run_calls, result_calls, submitted, service_failed,
                   service_default, results, gradients, raised, cause, returned>>

\* _run_unique, lines 93-113: a scalar or absent precision becomes a list of
\* len(circuits) entries, then the five lengths are compared
Validate ==
    /\ pc = "_run_unique"
    /\ has_transformed_precision' = TransformsPrecision(caller.precision)
    /\ precision' = PrecisionList(caller.precision, Len(circuits))
    /\ IF SameLengths(circuits, observables, parameters, parameter_values, precision')
       THEN pc' = "build" /\ raised' = raised
       ELSE pc' = "raised" /\ raised' = "ValueError"
    /\ UNCHANGED <<transpiler, original, caller, circuits, observables, parameter_values,
                   parameters, metadata, pubs, run_calls, result_calls, submitted,
                   service_failed, service_default, results, gradients, cause, returned>>

\* lines 115-124
Build ==
    /\ pc = "build"
    /\ metadata' = Metadata(circuits, observables, parameter_values, parameters, precision)
    /\ pubs' = Pubs(circuits, observables, parameter_values, parameters, precision)
    /\ pc' = "submit"
    /\ UNCHANGED <<transpiler, original, caller, circuits, observables, parameter_values,
                   parameters, precision, has_transformed_precision, run_calls,
                   result_calls, submitted, service_failed, service_default, results,
                   gradients, raised, cause, returned>>

\* line 127, outside the try: the estimator hands back a job, or raises
Submit ==
    /\ pc = "submit"
    /\ run_calls' = run_calls + 1
    /\ submitted' = Append(submitted, pubs)
    /\ \/ /\ pc' = "wait"
          /\ UNCHANGED <<service_failed, raised>>
       \/ /\ service_failed' = TRUE
          /\ raised' = "EstimatorError"
          /\ pc' = "raised"
    /\ UNCHANGED <<transpiler, original, caller, circuits, observables, parameter_values,
                   parameters, precision, has_transformed_precision, metadata, pubs,
                   result_calls, service_default, results, gradients, cause, returned>>

\* lines 128-131
Wait ==
    /\ pc = "wait"
    /\ result_calls' = result_calls + 1
    /\ \/ \E w \in Landscapes, d \in DefaultPrecisions :
            /\ results' = EstimatorResults(submitted[Len(submitted)], w, d)
            /\ service_default' = d
            /\ pc' = "gradients"
            /\ UNCHANGED <<service_failed, raised, cause>>
       \/ /\ service_failed' = TRUE
          /\ raised' = "AlgorithmError"
          /\ cause' = "EstimatorError"
          /\ pc' = "raised"
          /\ UNCHANGED <<results, service_default>>
    /\ UNCHANGED <<transpiler, original, caller, circuits, observables, parameter_values,
                   parameters, precision, has_transformed_precision, metadata, pubs,
                   run_calls, submitted, gradients, returned>>

\* lines 133-140
ComputeGradients ==
    /\ pc = "gradients"
    /\ gradients' = Gradients(results)
    /\ pc' = "resolve"
    /\ UNCHANGED <<transpiler, original, caller, circuits, observables, parameter_values,
                   parameters, precision, has_transformed_precision, metadata, pubs,
                   run_calls, result_calls, submitted, service_failed, service_default,
                   results, raised, cause, returned>>

\* lines 142-152.  When the precision was not transformed, `precision` is the
\* caller's own list, and line 150 assigns into it.
Resolve ==
    /\ pc = "resolve"
    /\ IF has_transformed_precision
       THEN IF precision = << >>
            THEN /\ raised' = "IndexError"
                 /\ pc' = "raised"
                 /\ UNCHANGED <<returned, caller, precision>>
            ELSE /\ returned' = [present |-> TRUE, gradients |-> gradients,
                                 metadata |-> metadata,
                                 precision |-> ScalarPrecision(ResolveScalar(precision, results))]
                 /\ pc' = "returned"
                 /\ UNCHANGED <<raised, caller, precision>>
       ELSE /\ precision' = ResolveSequence(precision, results)
            /\ caller' = [caller EXCEPT !.precision.seq = ResolveSequence(precision, results)]
            /\ returned' = [present |-> TRUE, gradients |-> gradients,
                            metadata |-> metadata,
                            precision |-> SeqPrecision(ResolveSequence(precision, results))]
            /\ pc' = "returned"
            /\ UNCHANGED raised
    /\ UNCHANGED <<transpiler, original, circuits, observables, parameter_values,
                   parameters, has_transformed_precision, metadata, pubs, run_calls,
                   result_calls, submitted, service_failed, service_default, results,
                   gradients, cause>>

Next ==
    \/ Run
    \/ Validate
    \/ Build
    \/ Submit
    \/ Wait
    \/ ComputeGradients
    \/ Resolve

Spec == Init /\ [][Next]_vars

\* ---------------------------------------------------------------- claims
Terminated == pc \in {"returned", "raised"}

\* the check of lines 102-113 has been passed
Validated == pc \notin {"_run", "_run_unique"} /\ raised # "ValueError"

\* the caller's sequences, and the precision when it is given per circuit, have one length
ArgumentLengthsEqual(a) ==
    /\ Len(a.circuits) = Len(a.observables)
    /\ Len(a.circuits) = Len(a.parameters)
    /\ Len(a.circuits) = Len(a.parameter_values)
    /\ a.precision.kind = "seq" => Len(a.precision.seq) = Len(a.circuits)

\* the precision the caller gave for circuit i
PrecisionFor(a, i) == IF a.precision.kind = "scalar" THEN a.precision.scalar ELSE a.precision.seq[i]

\* C1: an invocation whose input lengths are not all equal ends with ValueError,
\* and the estimator is neither given a job nor waited on before that.
C1_MismatchRejectedBeforeService ==
    ~ArgumentLengthsEqual(original) =>
        /\ run_calls = 0
        /\ result_calls = 0
        /\ Terminated => raised = "ValueError"

\* C2: every failure of the estimator reaches the caller as AlgorithmError whose
\* cause is the estimator's exception, and no result is returned.
C2_ServiceFailureWrapped ==
    service_failed =>
        /\ ~returned.present
        /\ Terminated => (raised = "AlgorithmError" /\ cause = "EstimatorError")

\* C3: for every circuit whose expectation values have length 2k, k the number of
\* shifted parameters, the returned gradient has length k and
\* gradient[i] = (value[i] - value[i+k]) / 2.
C3_ParameterShiftRule ==
    pc = "returned" =>
        \A i \in DOMAIN results :
            LET evs == results[i].evs
                k == Len(parameters[i])
            IN  Len(evs) = 2 * k =>
                    /\ i \in DOMAIN returned.gradients
                    /\ Len(returned.gradients[i]) = k
                    /\ \A j \in 1..k : 2 * returned.gradients[i][j] = evs[j] - evs[j + k]

C3_Witness ==
    /\ pc = "returned"
    /\ \E i \in DOMAIN results :
        /\ Len(parameters[i]) = 2
        /\ Len(results[i].evs) = 4
        /\ returned.gradients[i][1] # returned.gradients[i][2]
    /\ \E i \in DOMAIN results :
        /\ Len(parameters[i]) = 1
        /\ returned.gradients[i] = <<(results[i].evs[1] - results[i].evs[2]) \div 2>>
        /\ returned.gradients[i][1] # 0

\* C4: for equal-length inputs and an estimator that does not fail, a result is
\* returned whose gradients, metadata and precision (when it is a sequence) have
\* as many entries as there are circuits.
C4_OutputLengths ==
    (Terminated /\ ArgumentLengthsEqual(original) /\ ~service_failed) =>
        /\ returned.present
        /\ Len(returned.gradients) = Len(original.circuits)
        /\ Len(returned.metadata) = Len(original.circuits)
        /\ returned.precision.kind = "seq" =>
               Len(returned.precision.seq) = Len(original.circuits)

\* C5: with precision None every pub of the batch carries None, and the precision
\* of the result is the default the estimator reported, read after job.result().
C5_UnspecifiedPrecisionIsServiceDefault ==
    original.precision = ScalarPrecision(None) =>
        /\ \A b \in DOMAIN submitted : \A i \in DOMAIN submitted[b] :
               submitted[b][i].precision = None
        /\ Validated /\ pc # "build" => Len(pubs) = Len(circuits)
        /\ result_calls = 0 => ~returned.present
        /\ pc = "returned" =>
               /\ result_calls = 1
               /\ service_default \in DefaultPrecisions
               /\ returned.precision = ScalarPrecision(service_default)

C5_Witness ==
    /\ pc = "returned"
    /\ original.precision = ScalarPrecision(None)
    /\ Len(circuits) = 2
    /\ Len(submitted) = 1
    /\ Len(submitted[1]) = 2
    /\ returned.precision.scalar = "0.3"

\* C6: a scalar precision is attached to the pub of every circuit and is the
\* precision of the result, whatever default the estimator reports.
C6_ScalarPrecisionBroadcast ==
    (original.precision.kind = "scalar" /\ original.precision.scalar # None) =>
        /\ \A b \in DOMAIN submitted :
               /\ Len(submitted[b]) = Len(circuits)
               /\ \A i \in DOMAIN submitted[b] :
                      submitted[b][i].precision = original.precision.scalar
        /\ pc = "returned" => returned.precision = original.precision

C6_Witness ==
    /\ pc = "returned"
    /\ original.precision = ScalarPrecision("0.1")
    /\ service_default = "0.3"
    /\ Len(circuits) = 2
    /\ Len(submitted[1]) = 2
    /\ returned.precision.scalar = "0.1"

\* the batch the estimator must be given: one pub per circuit, in input order
ExpectedBatch(batch) ==
    /\ Len(batch) = Len(circuits)
    /\ \A i \in DOMAIN batch :
           /\ batch[i].circuit = circuits[i]
           /\ batch[i].observable = observables[i]
           /\ batch[i].parameter_values =
                  MakeParamShiftParameterValues(circuits[i], parameter_values[i], parameters[i])
           /\ batch[i].precision = PrecisionFor(original, i)

\* C7 as stated: every invocation that passes validation submits exactly one
\* batch and waits exactly once on it; the batch has one pub per circuit.
C7_OneJobOneWait ==
    (Validated /\ Terminated) =>
        /\ run_calls = 1
        /\ result_calls = 1
        /\ Len(submitted) = 1
        /\ ExpectedBatch(submitted[1])

\* C7 as amended: every invocation that passes validation calls estimator.run
\* exactly once, with one pub per circuit in input order (circuit i, observable i,
\* the shifted assignments of parameter values i and parameter subset i,
\* precision i); it waits exactly once on the job when estimator.run returned
\* one, never before the submission, and not at all when estimator.run raised.
C7_OneJobThenWait ==
    /\ result_calls <= run_calls
    /\ run_calls <= 1
    /\ Len(submitted) = run_calls
    /\ ~Validated => run_calls = 0
    /\ \A b \in DOMAIN submitted : ExpectedBatch(submitted[b])
    /\ (Validated /\ Terminated) =>
           /\ run_calls = 1
           /\ result_calls = (IF raised = "EstimatorError" THEN 0 ELSE 1)

C7_Witness ==
    /\ pc = "returned"
    /\ run_calls = 1
    /\ result_calls = 1
    /\ Len(submitted[1]) = 2
    /\ submitted[1][1].precision = "0.1"
    /\ submitted[1][2].precision = None
    /\ submitted[1][1].observable # submitted[1][2].observable
    /\ submitted[1][2].parameter_values # << >>

\* C8: with a per-circuit precision, the precision of the result keeps every
\* entry the caller gave and replaces every None by the default reported in the
\* metadata of the same circuit's result.
C8_PerCircuitPrecision ==
    (original.precision.kind = "seq" /\ pc = "returned") =>
        /\ returned.precision.kind = "seq"
        /\ Len(returned.precision.seq) = Len(original.precision.seq)
        /\ Len(results) = Len(original.precision.seq)
        /\ \A i \in DOMAIN original.precision.seq :
               returned.precision.seq[i] =
                   IF original.precision.seq[i] = None
                   THEN results[i].target_precision
                   ELSE original.precision.seq[i]
        /\ \A i \in DOMAIN original.precision.seq :
               original.precision.seq[i] = None =>
                   returned.precision.seq[i] = service_default

C8_Witness ==
    /\ pc = "returned"
    /\ original.precision = SeqPrecision(<<"0.1", None>>)
    /\ returned.precision = SeqPrecision(<<"0.1", "0.3">>)

\* C9: metadata entry i of the result is the record whose 'parameters' is the
\* parameter subset passed for circuit i, in the order it was passed, and
\* gradient i has one entry per parameter of that subset.
C9_MetadataParameters ==
    pc = "returned" =>
        /\ Len(returned.metadata) = Len(circuits)
        /\ Len(returned.gradients) = Len(circuits)
        /\ \A i \in DOMAIN returned.metadata :
               /\ returned.metadata[i] = [parameters |-> parameters[i]]
               /\ Len(returned.gradients[i]) = Len(parameters[i])

C9_Witness ==
    /\ pc = "returned"
    /\ Len(circuits) = 2
    /\ parameters[1] = <<1>>
    /\ parameters[2] = <<NumParams, 1>>
    /\ returned.metadata[2].parameters = <<NumParams, 1>>

\* C10: an invocation leaves every sequence the caller passed as it was.
C10_InputsUnchanged == caller = original

====
